---- MODULE Spec2Model ----
(***************************************************************************)
(* Model of exiflib/exif.py: extract_exif_data and its helpers.            *)
(*                                                                         *)
(* Python objects are tagged values [k |-> kind, v |-> payload].  A dict   *)
(* is the sequence of its <<key, value>> items in insertion order, a       *)
(* pandas Series is the sequence of its <<label, value>> entries (labels   *)
(* may repeat), a float is an exact fraction <<numerator, denominator>>    *)
(* in lowest terms, and a file path is the sequence of its characters.     *)
(***************************************************************************)
EXTENDS Integers, Sequences, FiniteSets, TLC

\* ------------------------------------------------------------------ bounds
\* Largest numerator / denominator of a Rational handed to
\* _convert_to_degrees when it is called on its own.
MaxNum == 2
MaxDen == 2
\* Largest number of items in the tag map the decoder returns.
MaxTags == 2

\* ---------------------------------------------------------- python objects
None == [k |-> "NoneType", v |-> 0]

Str(s) == [k |-> "str", v |-> s]

IntObj(i) == [k |-> "int", v |-> i]

Tuple(s) == [k |-> "tuple", v |-> s]

Dict(items) == [k |-> "dict", v |-> items]

\* A str holding a file path, kept as its characters.
Path(chars) == [k |-> "path", v |-> chars]

\* a == b of two python objects
ObjEq(a, b) == a.k = b.k /\ a.v = b.v

\* bool(o)
Truthy(o) ==
    CASE o.k = "NoneType" -> FALSE
      [] o.k = "str"      -> o.v # ""
      [] o.k = "int"      -> o.v # 0
      [] o.k = "float"    -> o.v[1] # 0
      [] OTHER            -> o.v # <<>>

\* ------------------------------------------------------------------ floats
Abs(n) == IF n < 0 THEN -n ELSE n

RECURSIVE GCD(_, _)
GCD(a, b) == IF b = 0 THEN a ELSE GCD(b, a % b)

\* The float n/d (d # 0), in lowest terms with a positive denominator.
Float(n, d) ==
    LET g == GCD(Abs(n), Abs(d))
        s == IF d < 0 THEN -1 ELSE 1
    IN  [k |-> "float", v |-> <<(s * n) \div g, (s * d) \div g>>]

FAdd(a, b) == Float(a.v[1] * b.v[2] + b.v[1] * a.v[2], a.v[2] * b.v[2])

FSub(a, b) == Float(a.v[1] * b.v[2] - b.v[1] * a.v[2], a.v[2] * b.v[2])

\* a / b for b # 0
FDiv(a, b) == Float(a.v[1] * b.v[2], a.v[2] * b.v[1])

\* -------------------------------------------------------------------- dict
Keys(d) == [i \in 1..Len(d) |-> d[i][1]]

DictHas(d, key) == \E i \in 1..Len(d) : ObjEq(d[i][1], key)

\* d.get(key)
DictGet(d, key) ==
    IF DictHas(d, key)
    THEN d[CHOOSE i \in 1..Len(d) : ObjEq(d[i][1], key)][2]
    ELSE None

\* d[key] = val : an existing key keeps its position, a new key goes last
DictSet(d, key, val) ==
    IF DictHas(d, key)
    THEN [i \in 1..Len(d) |-> IF ObjEq(d[i][1], key) THEN <<key, val>> ELSE d[i]]
    ELSE Append(d, <<key, val>>)

\* d.pop(key)
DictPop(d, key) == SelectSeq(d, LAMBDA it : ~ObjEq(it[1], key))

\* ------------------------------------------------------------------- paths
Sep == "/"

Dot == "."

\* str.lower() on one character
LowerChar(c) ==
    CASE c = "M" -> "m"
      [] c = "O" -> "o"
      [] c = "V" -> "v"
      [] OTHER   -> c

Lower(p) == [i \in 1..Len(p) |-> LowerChar(p[i])]

\* Index of the last occurrence of c in p, 0 when there is none.
RFind(p, c) ==
    LET hits == {i \in 1..Len(p) : p[i] = c}
    IN  IF hits = {} THEN 0 ELSE CHOOSE i \in hits : \A j \in hits : j <= i

\* os.path.basename
Basename(p) == SubSeq(p, RFind(p, Sep) + 1, Len(p))

\* os.path.splitext(p)[1]
SplitExt(p) ==
    LET sepIndex == RFind(p, Sep)
        dotIndex == RFind(p, Dot)
    IN  IF dotIndex > sepIndex
           /\ \E i \in (sepIndex + 1)..(dotIndex - 1) : p[i] # Dot
        THEN SubSeq(p, dotIndex, Len(p))
        ELSE <<>>

MovExt == <<".", "m", "o", "v">>

\* ------------------------------------------------------------- name tables
\* PIL.ExifTags.TAGS restricted to the ids used here
TAGS == [i \in {271, 272, 34853} |->
            CASE i = 271 -> "Make" [] i = 272 -> "Model" [] OTHER -> "GPSInfo"]

\* PIL.ExifTags.GPSTAGS restricted to the ids used here
GPSTAGS == [i \in {1, 2, 3, 4} |->
            CASE i = 1 -> "GPSLatitudeRef" [] i = 2 -> "GPSLatitude"
              [] i = 3 -> "GPSLongitudeRef" [] OTHER -> "GPSLongitude"]

\* TAGS.get(key)
TagsGet(key) ==
    IF key.k = "int" /\ key.v \in DOMAIN TAGS THEN Str(TAGS[key.v]) ELSE None

\* GPSTAGS.get(key)
GpsTagsGet(key) ==
    IF key.k = "int" /\ key.v \in DOMAIN GPSTAGS THEN Str(GPSTAGS[key.v]) ELSE None

\* ------------------------------------------------------ _convert_to_degrees
Raise(name) == [exc |-> name, val |-> None]

Return(val) == [exc |-> "", val |-> val]

\* Variant: a zero denominator yields 0.0 instead of raising.
RationalToFloatZero(r) ==
    IF r[2] = 0 THEN Return(Float(0, 1))
    ELSE Return(FDiv(Float(r[1], 1), Float(r[2], 1)))

\* float(r[0]) / float(r[1]) of one Rational
RationalToFloat(r) ==
    IF r[2] = 0 THEN Raise("ZeroDivisionError")
    ELSE Return(FDiv(Float(r[1], 1), Float(r[2], 1)))

\* Variant: the seconds are divided by 60 instead of 3600.
DegreesSec60(deg, mns, sec) ==
    IF deg.exc # "" THEN deg
    ELSE IF mns.exc # "" THEN mns
    ELSE IF sec.exc # "" THEN sec
    ELSE Return(FAdd(FAdd(deg.val, FDiv(mns.val, Float(60, 1))),
                     FDiv(sec.val, Float(60, 1))))

\* deg + (mns / 60.0) + (sec / 3600.00), unless one of the three divisions
\* raised (the first to raise ends the call)
Degrees(deg, mns, sec) ==
    IF deg.exc # "" THEN deg
    ELSE IF mns.exc # "" THEN mns
    ELSE IF sec.exc # "" THEN sec
    ELSE Return(FAdd(FAdd(deg.val, FDiv(mns.val, Float(60, 1))),
                     FDiv(sec.val, Float(3600, 1))))

ConvertToDegrees(value) ==
    Degrees(RationalToFloat(value.v[1]), RationalToFloat(value.v[2]),
            RationalToFloat(value.v[3]))

\* ------------------------------------------------------------- _get_lat_lon
\* Variant: only the references 'S' and 'W' negate.
SignedKnownRefs(lat, lon, lat_ref, lon_ref) ==
    IF lat.exc # "" THEN lat
    ELSE IF lon.exc # "" THEN lon
    ELSE Return(<<IF ObjEq(lat_ref, Str("S"))
                  THEN FSub(Float(0, 1), lat.val) ELSE lat.val,
                  IF ObjEq(lon_ref, Str("W"))
                  THEN FSub(Float(0, 1), lon.val) ELSE lon.val>>)

\* if lat_ref != 'N': lat = (0 - lat); if lon_ref != 'E': lon = (0 - lon)
\* (lat, lon: the outcomes of the two conversions, the first to raise ends
\* the call)
Signed(lat, lon, lat_ref, lon_ref) ==
    IF lat.exc # "" THEN lat
    ELSE IF lon.exc # "" THEN lon
    ELSE Return(<<IF ~ObjEq(lat_ref, Str("N"))
                  THEN FSub(Float(0, 1), lat.val) ELSE lat.val,
                  IF ~ObjEq(lon_ref, Str("E"))
                  THEN FSub(Float(0, 1), lon.val) ELSE lon.val>>)

\* Variant: a missing field yields the default coordinates 0.0, 0.0.
LatLonDefault(lat_val, lon_val, lat_ref, lon_ref) ==
    IF Truthy(lat_val) /\ Truthy(lon_val) /\ Truthy(lat_ref) /\ Truthy(lon_ref)
    THEN Signed(ConvertToDegrees(lat_val), ConvertToDegrees(lon_val),
                lat_ref, lon_ref)
    ELSE Return(<<Float(0, 1), Float(0, 1)>>)

\* if all([lat_val, lon_val, lat_ref, lon_ref]): ...; return lat, lon
LatLon(lat_val, lon_val, lat_ref, lon_ref) ==
    IF Truthy(lat_val) /\ Truthy(lon_val) /\ Truthy(lat_ref) /\ Truthy(lon_ref)
    THEN Signed(ConvertToDegrees(lat_val), ConvertToDegrees(lon_val),
                lat_ref, lon_ref)
    \* lat and lon were never assigned
    ELSE Raise("UnboundLocalError")

GetLatLon(gps_data) ==
    LatLon(DictGet(gps_data, Str("GPSLatitude")),
           DictGet(gps_data, Str("GPSLongitude")),
           DictGet(gps_data, Str("GPSLatitudeRef")),
           DictGet(gps_data, Str("GPSLongitudeRef")))

\* ------------------------------------------------------------ _test_for_mov
\* Variant: the extension is compared without .lower().
TestForMovCaseSensitive(filename) ==
    IF SplitExt(filename.v) = MovExt
    THEN <<Dict(<<  <<Str("Fullpath"), filename>>,
                    <<Str("Filename"), Path(Basename(filename.v))>>  >>),
           Dict(<< <<Str("default"), None>> >>)>>
    ELSE <<None, None>>

TestForMov(filename) ==
    IF Lower(SplitExt(filename.v)) = MovExt
    THEN <<Dict(<<  <<Str("Fullpath"), filename>>,
                    <<Str("Filename"), Path(Basename(filename.v))>>  >>),
           Dict(<< <<Str("default"), None>> >>)>>
    ELSE <<None, None>>

\* ---------------------------------------------------------- _get_image_data
\* outcome is what Image.open(filename)._getexif() does: it raises
\* (outcome.exc # "") or returns outcome.val
GetImageData(outcome) == IF outcome.exc # "" THEN Dict(<<>>) ELSE outcome.val

\* -------------------------------------------------------- _extract_exif_data
\* for k, v in items: data[TAGS.get(k)] = v
RECURSIVE DecodeTags(_, _)
DecodeTags(data, items) ==
    IF items = <<>> THEN data
    ELSE DecodeTags(DictSet(data, TagsGet(Head(items)[1]), Head(items)[2]),
                    Tail(items))

\* for k, v in items: gps_data[GPSTAGS.get(k)] = v
RECURSIVE DecodeGpsTags(_, _)
DecodeGpsTags(gps_data, items) ==
    IF items = <<>> THEN gps_data
    ELSE DecodeGpsTags(DictSet(gps_data, GpsTagsGet(Head(items)[1]), Head(items)[2]),
                       Tail(items))

\* if None in data.keys(): data.pop(None)
RemoveNoneKeys(data) == IF DictHas(data, None) THEN DictPop(data, None) ELSE data

\* data['Fullpath'] = filename; data['Filename'] = os.path.basename(filename)
AddFileValues(data, filename) ==
    DictSet(DictSet(data, Str("Fullpath"), filename),
            Str("Filename"), Path(Basename(filename.v)))

\* The two dictionaries when the try block is left, normally (exc = "") or
\* by the exception exc.
Left(data, gps_data, exc) == [data |-> data, gps_data |-> gps_data, exc |-> exc]

\* gps_data['Latitude'] = lat_lon[0]; gps_data['Longitude'] = lat_lon[1]
AddLatLon(data, gps_data, lat_lon) ==
    IF lat_lon.exc # "" THEN Left(data, gps_data, lat_lon.exc)
    ELSE Left(data,
              DictSet(DictSet(gps_data, Str("Latitude"), lat_lon.val[1]),
                      Str("Longitude"), lat_lon.val[2]),
              "")

\* lat_lon = _get_lat_lon(gps_data=gps_data)
DecodedGps(data, gps_data) == AddLatLon(data, gps_data, GetLatLon(gps_data))

\* for k, v in data['GPSInfo'].items(): ...
DecodeGps(data, info) ==
    IF info.k # "dict" THEN Left(data, <<>>, "AttributeError")
    ELSE DecodedGps(data, DecodeGpsTags(<<>>, info.v))

\* if 'GPSInfo' in data: ...
TestForGps(data) ==
    IF ~DictHas(data, Str("GPSInfo")) THEN Left(data, <<>>, "")
    ELSE DecodeGps(data, DictGet(data, Str("GPSInfo")))

\* the body of the try statement
TryBlock(img_data, filename) ==
    IF img_data.k # "dict" THEN Left(<<>>, <<>>, "AttributeError")
    ELSE TestForGps(AddFileValues(RemoveNoneKeys(DecodeTags(<<>>, img_data.v)),
                                  filename))

\* Variant: the handler reports the error and adds nothing.
ExceptBlockNoFileValues(t, filename) ==
    [data |-> t.data, gps_data |-> t.gps_data, err |-> t.exc, raised |-> ""]

\* Variant: the handler re-raises.
ExceptBlockReraise(t, filename) ==
    [data |-> AddFileValues(t.data, filename), gps_data |-> t.gps_data,
     err |-> t.exc, raised |-> t.exc]

\* Variant: the handler starts again from empty dictionaries.
ExceptBlockDiscard(t, filename) ==
    [data |-> AddFileValues(<<>>, filename), gps_data |-> <<>>,
     err |-> t.exc, raised |-> ""]

\* except Exception as err: the file values are added; nothing is re-raised
ExceptBlock(t, filename) ==
    [data |-> AddFileValues(t.data, filename), gps_data |-> t.gps_data,
     err |-> t.exc, raised |-> ""]

\* try: ... except Exception: ...; return data, gps_data
TryExcept(t, filename) ==
    IF t.exc # "" THEN ExceptBlock(t, filename)
    ELSE [data |-> t.data, gps_data |-> t.gps_data, err |-> "", raised |-> ""]

ExtractExifData(img_data, filename) ==
    TryExcept(TryBlock(img_data, filename), filename)

\* --------------------------------------------------------- pandas
Series(entries) == [k |-> "Series", v |-> entries]

\* pd.Series(data)
PdSeries(data) == Series(data.v)

\* Variant: the GPS series is concatenated first.
ConvertToSeriesGpsFirst(data, gps_data) == Series(gps_data.v \o data.v)

\* pd.concat([pd.Series(data), pd.Series(gps_data)])
ConvertToSeries(data, gps_data) == Series(data.v \o gps_data.v)

\* ------------------------------------------------------------------ inputs
\* File names handed to extract_exif_data.
Filenames ==
    { <<"a", ".", "M", "O", "V">>,
      <<"d", "/", "b", ".", "m", "o", "v">>,
      <<"d", ".", "m", "o", "v", "/", "c", ".", "j", "p", "g">>,
      <<".", "m", "o", "v">> }

\* Tag ids of the decoder's tag map: Make, Model, an id TAGS does not
\* name, and GPSInfo.
TagIds == {271, 272, 9999, 34853}

IdSeqs ==
    { s \in UNION { [1..n -> TagIds] : n \in 0..MaxTags } :
        \A i, j \in 1..Len(s) : s[i] = s[j] => i = j }

HasGpsId(ids) == \E i \in 1..Len(ids) : ids[i] = 34853

\* A field of the GPSInfo map is one of these options: <<>> is absent.
LatRefOpts == << <<>>, <<Str("")>>, <<Str("N")>>, <<Str("S")>>, <<Str("X")>> >>

LonRefOpts == << <<>>, <<Str("")>>, <<Str("E")>>, <<Str("W")>>, <<Str("X")>> >>

LatOpts ==
    << <<>>,
       <<Tuple(<<>>)>>,
       <<Tuple(<< <<40, 1>>, <<26, 1>>, <<0, 1>> >>)>>,
       <<Tuple(<< <<81, 2>>, <<7, 4>>, <<9, 5>> >>)>>,
       <<Tuple(<< <<40, 0>>, <<26, 1>>, <<0, 1>> >>)>>,
       <<Tuple(<< <<40, 1>>, <<26, 0>>, <<0, 1>> >>)>>,
       <<Tuple(<< <<40, 1>>, <<26, 1>>, <<0, 0>> >>)>> >>

LonOpts ==
    << <<>>,
       <<Tuple(<<>>)>>,
       <<Tuple(<< <<79, 1>>, <<58, 1>>, <<0, 1>> >>)>>,
       <<Tuple(<< <<79, 0>>, <<58, 1>>, <<0, 1>> >>)>>,
       <<Tuple(<< <<79, 1>>, <<58, 0>>, <<0, 1>> >>)>>,
       <<Tuple(<< <<79, 1>>, <<58, 1>>, <<0, 0>> >>)>> >>

\* A GPS sub-tag id GPSTAGS does not name.
UnknownOpts == << <<>>, <<Str("junk")>>, <<Str("junk")>> >>

\* A second unnamed GPS sub-tag, present with the third option only.
Unknown2Opts == << <<>>, <<>>, <<Str("junk2")>> >>

Item(id, opt) == IF opt = <<>> THEN <<>> ELSE << <<IntObj(id), opt[1]>> >>

\* The GPSInfo map of the chosen options, in the order it is iterated.
GpsMap(latRef, lonRef, lat, lon, unk) ==
    Dict(Item(3, LonRefOpts[lonRef]) \o Item(2, LatOpts[lat])
         \o Item(99, UnknownOpts[unk]) \o Item(4, LonOpts[lon])
         \o Item(1, LatRefOpts[latRef]) \o Item(98, Unknown2Opts[unk]))

\* The value stored under tag id in the decoder's map.
TagValue(id, gpsinfo) ==
    CASE id = 271   -> Str("Canon")
      [] id = 272   -> Str("EOS")
      [] id = 9999  -> Str("maker")
      [] OTHER      -> gpsinfo

TagMap(ids, gpsinfo) ==
    Dict([i \in 1..Len(ids) |-> <<IntObj(ids[i]), TagValue(ids[i], gpsinfo)>>])

\* ------------------------------------------------------------------- state
VARIABLES
    pc,             \* where the current call stands
    filename,       \* argument of extract_exif_data
    fileexists,     \* what u.fileexists(filename) answers
    img_data,       \* locals of extract_exif_data
    data,
    gps_data,
    results,
    err,            \* exception reported by _extract_exif_data, "" if none
    decoded,        \* number of _get_image_data calls made by this call
    value,          \* argument of a direct _convert_to_degrees call
    degrees         \* its outcome

vars == <<pc, filename, fileexists, img_data, data, gps_data, results, err,
          decoded, value, degrees>>

Init ==
    /\ pc = "idle"
    /\ filename = None
    /\ fileexists = FALSE
    /\ img_data = None
    /\ data = None
    /\ gps_data = None
    /\ results = None
    /\ err = ""
    /\ decoded = 0
    /\ value = None
    /\ degrees = Return(None)

\* extract_exif_data(filename): the locals are initialised
Call(f, e) ==
    /\ pc = "idle"
    /\ pc' = "called"
    /\ filename' = Path(f)
    /\ fileexists' = e
    /\ img_data' = None
    /\ data' = None
    /\ gps_data' = None
    /\ results' = None
    /\ UNCHANGED <<err, decoded, value, degrees>>

\* u.fileexists(filename) is false: the function falls off its end
FileMissing ==
    /\ pc = "called"
    /\ ~fileexists
    /\ pc' = "done"
    /\ UNCHANGED <<filename, fileexists, img_data, data, gps_data, results, err,
                   decoded, value, degrees>>

\* img_data, gps_data = _test_for_mov(filename=filename)
DoTestForMov ==
    /\ pc = "called"
    /\ fileexists
    /\ img_data' = TestForMov(filename)[1]
    /\ gps_data' = TestForMov(filename)[2]
    /\ pc' = "tested"
    /\ UNCHANGED <<filename, fileexists, data, results, err, decoded, value, degrees>>

\* if not img_data: img_data = _get_image_data(filename=filename)
DoGetImageData(outcome) ==
    /\ img_data' = GetImageData(outcome)
    /\ decoded' = decoded + 1
    /\ pc' = "loaded"
    /\ UNCHANGED <<filename, fileexists, data, gps_data, results, err, value, degrees>>

\* The decoder raises, returns None, or returns a tag map.
LoadImage ==
    /\ pc = "tested"
    /\ ~Truthy(img_data)
    /\ \/ DoGetImageData(Raise("OSError"))
       \/ DoGetImageData(Return(None))
       \/ \E ids \in IdSeqs :
            /\ ~HasGpsId(ids)
            /\ DoGetImageData(Return(TagMap(ids, None)))
       \/ \E ids \in IdSeqs :
            /\ HasGpsId(ids)
            /\ DoGetImageData(Return(TagMap(ids, IntObj(1234))))
       \/ \E ids \in IdSeqs :
            /\ HasGpsId(ids)
            /\ \E latRef \in 1..Len(LatRefOpts), lonRef \in 1..Len(LonRefOpts),
                  lat \in 1..Len(LatOpts), lon \in 1..Len(LonOpts),
                  unk \in 1..Len(UnknownOpts) :
                   DoGetImageData(Return(TagMap(ids, GpsMap(latRef, lonRef, lat, lon, unk))))

\* img_data is already set: _get_image_data is not called
SkipImageData ==
    /\ pc = "tested"
    /\ Truthy(img_data)
    /\ pc' = "loaded"
    /\ UNCHANGED <<filename, fileexists, img_data, data, gps_data, results, err,
                   decoded, value, degrees>>

\* data, gps_data = ... of the outcome r of _extract_exif_data
AssignExtracted(r) ==
    IF r.raised # ""
    THEN /\ pc' = "raised"
         /\ err' = r.raised
         /\ UNCHANGED <<data, gps_data>>
    ELSE /\ pc' = "extracted"
         /\ err' = r.err
         /\ data' = Dict(r.data)
         /\ gps_data' = Dict(r.gps_data)

\* data, gps_data = _extract_exif_data(img_data=img_data, filename=filename)
DoExtractExifData ==
    /\ pc = "loaded"
    /\ AssignExtracted(ExtractExifData(img_data, filename))
    /\ UNCHANGED <<filename, fileexists, img_data, results, decoded, value, degrees>>

\* if all([data, gps_data]): results = _convert_to_series(...)
DoConvertToSeries ==
    /\ pc = "extracted"
    /\ Truthy(data) /\ Truthy(gps_data)
    /\ results' = ConvertToSeries(data, gps_data)
    /\ pc' = "done"
    /\ UNCHANGED <<filename, fileexists, img_data, data, gps_data, err, decoded,
                   value, degrees>>

\* else: results = pd.Series(data)
DoPdSeries ==
    /\ pc = "extracted"
    /\ ~(Truthy(data) /\ Truthy(gps_data))
    /\ results' = PdSeries(data)
    /\ pc' = "done"
    /\ UNCHANGED <<filename, fileexists, img_data, data, gps_data, err, decoded,
                   value, degrees>>

\* _convert_to_degrees(value) called on its own
DoConvertToDegrees ==
    /\ pc = "idle"
    /\ \E dn, mn, sn \in 0..MaxNum, dd, md, sd \in 0..MaxDen :
         /\ value' = Tuple(<< <<dn, dd>>, <<mn, md>>, <<sn, sd>> >>)
         /\ degrees' = ConvertToDegrees(value')
    /\ pc' = "converted"
    /\ UNCHANGED <<filename, fileexists, img_data, data, gps_data, results, err,
                   decoded>>

\* The call has returned (or raised): its locals are gone.
Finish ==
    /\ pc \in {"done", "raised", "converted"}
    /\ pc' = "idle"
    /\ filename' = None
    /\ fileexists' = FALSE
    /\ img_data' = None
    /\ data' = None
    /\ gps_data' = None
    /\ results' = None
    /\ err' = ""
    /\ decoded' = 0
    /\ value' = None
    /\ degrees' = Return(None)

Next ==
    \/ \E f \in Filenames, e \in BOOLEAN : Call(f, e)
    \/ FileMissing
    \/ DoTestForMov
    \/ LoadImage
    \/ SkipImageData
    \/ DoExtractExifData
    \/ DoConvertToSeries
    \/ DoPdSeries
    \/ DoConvertToDegrees
    \/ Finish

Spec == Init /\ [][Next]_vars

\* ------------------------------------------------------------ observations
\* extract_exif_data has returned for a file that exists
Returned == pc = "done" /\ fileexists

Labels(series) == Keys(series.v)

HasLabel(series, name) ==
    \E i \in 1..Len(series.v) : ObjEq(series.v[i][1], Str(name))

HasEntry(series, key, val) ==
    \E i \in 1..Len(series.v) :
        ObjEq(series.v[i][1], key) /\ ObjEq(series.v[i][2], val)

FileLabels == <<Str("Fullpath"), Str("Filename")>>

\* The tag map the decoder produced (no items when it produced none).
RawItems == IF img_data.k = "dict" THEN img_data.v ELSE <<>>

RawGpsInfo == DictGet(RawItems, IntObj(34853))

GpsBlock == RawGpsInfo.k = "dict"

RawGps(id) == DictGet(RawGpsInfo.v, IntObj(id))

\* GPSLatitudeRef, GPSLatitude, GPSLongitudeRef and GPSLongitude are all
\* present and truthy in the GPSInfo map
AllFour == GpsBlock /\ \A id \in 1..4 : Truthy(RawGps(id))

ZeroDen(t) == \E i \in 1..3 : t.v[i][2] = 0

AllFourValid == AllFour /\ ~ZeroDen(RawGps(2)) /\ ~ZeroDen(RawGps(4))

\* dn/dd + (mn/md)/60 + (sn/sd)/3600 as one fraction
Magnitude(t) ==
    LET dn == t.v[1][1]  dd == t.v[1][2]
        mn == t.v[2][1]  md == t.v[2][2]
        sn == t.v[3][1]  sd == t.v[3][2]
    IN  Float(3600 * dn * md * sd + 60 * mn * dd * sd + sn * dd * md,
              3600 * dd * md * sd)

Negated(f) == Float(-f.v[1], f.v[2])

MovFiles == { <<"a", ".", "M", "O", "V">>, <<"d", "/", "b", ".", "m", "o", "v">> }

\* The labels of seq without the later repetitions of a label.
RECURSIVE Uniq(_, _)
Uniq(acc, rest) ==
    IF rest = <<>> THEN acc
    ELSE Uniq(IF \E i \in 1..Len(acc) : ObjEq(acc[i], Head(rest))
              THEN acc ELSE Append(acc, Head(rest)),
              Tail(rest))

IsNamed(label) == label.k # "NoneType"

GeneralLabels ==
    SelectSeq([i \in 1..Len(RawItems) |-> TagsGet(RawItems[i][1])], IsNamed)

GpsLabels ==
    Uniq(<<>>, [i \in 1..Len(RawGpsInfo.v) |-> GpsTagsGet(RawGpsInfo.v[i][1])])

ExpectedLabels ==
    GeneralLabels \o FileLabels
    \o (IF GpsBlock /\ RawGpsInfo.v # <<>>
        THEN GpsLabels \o (IF AllFourValid
                           THEN <<Str("Latitude"), Str("Longitude")>> ELSE <<>>)
        ELSE <<>>)

\* ------------------------------------------------------------------ claims
\* C1: whenever extract_exif_data returns for a file that exists, whatever
\* the decoder did and whatever failed while decoding, the record holds
\* Fullpath with the given path and Filename with the path's base name.
C1_FileKeysAlwaysPresent ==
    Returned =>
        /\ results.k = "Series"
        /\ HasEntry(results, Str("Fullpath"), filename)
        /\ HasEntry(results, Str("Filename"), Path(Basename(filename.v)))

\* The file keys are present although decoding failed.
C1_Witness ==
    /\ Returned
    /\ err # ""
    /\ HasEntry(results, Str("Fullpath"), filename)
    /\ HasEntry(results, Str("Filename"), Path(<<"c", ".", "j", "p", "g">>))

\* C2 as stated: for an existing .mov file (any letter case) the decoder is
\* never invoked and the record is exactly Fullpath, Filename and a
\* GPS-absent placeholder field.
C2_MovRecordHasMarker ==
    (Returned /\ filename.v \in MovFiles) =>
        /\ decoded = 0
        /\ Len(results.v) = 3
        /\ HasLabel(results, "Fullpath")
        /\ HasLabel(results, "Filename")
        /\ HasLabel(results, "default")

\* C2 amended: for an existing .mov file (any letter case) the decoder is
\* never invoked and the record is exactly Fullpath and Filename; the
\* placeholder built by _test_for_mov does not reach the record.
C2_MovRecordIsFileKeysOnly ==
    (pc \in {"loaded", "extracted", "done"} /\ fileexists
       /\ filename.v \in MovFiles) =>
        /\ decoded = 0
        /\ pc = "done" =>
              /\ Len(results.v) = 2
              /\ results.v[1] = <<Str("Fullpath"), filename>>
              /\ results.v[2] = <<Str("Filename"), Path(Basename(filename.v))>>

C2_Witness ==
    /\ Returned
    /\ filename.v = <<"a", ".", "M", "O", "V">>
    /\ decoded = 0
    /\ Labels(results) = FileLabels

\* C3 as stated: a tag id without an entry in its name table leaves no
\* trace in the record: no label is None or a number, and the value of
\* an unnamed id is under no label.
C3_UnknownIdsDropped ==
    Returned =>
        \A i \in 1..Len(results.v) :
            /\ results.v[i][1].k = "str"
            /\ ~ObjEq(results.v[i][2], Str("maker"))
            /\ ~ObjEq(results.v[i][2], Str("junk"))
            /\ ~ObjEq(results.v[i][2], Str("junk2"))

\* C4: with a GPSInfo block in which one of the four coordinate fields is
\* absent or falsy, a record is returned and it has neither Latitude nor
\* Longitude.
C4_MissingFieldNoLatLon ==
    (pc \in {"extracted", "done", "raised"} /\ GpsBlock /\ ~AllFour) =>
        /\ pc # "raised"
        /\ pc = "done" =>
              /\ results.k = "Series"
              /\ ~HasLabel(results, "Latitude")
              /\ ~HasLabel(results, "Longitude")

\* Only the latitude reference is missing and the other GPS fields are
\* returned.
C4_Witness ==
    /\ Returned
    /\ GpsBlock
    /\ ~Truthy(RawGps(1))
    /\ \A id \in 2..4 : Truthy(RawGps(id))
    /\ HasLabel(results, "GPSLatitude")
    /\ ~HasLabel(results, "Latitude")

\* C5: with all four fields present (and convertible), Latitude is +m for
\* the reference 'N' and -m for any other reference, Longitude is +m for
\* 'E' and -m for any other reference, m being the converted magnitude.
C5_HemisphereSign ==
    (Returned /\ AllFourValid) =>
        /\ HasEntry(results, Str("Latitude"),
                    IF ObjEq(RawGps(1), Str("N")) THEN Magnitude(RawGps(2))
                    ELSE Negated(Magnitude(RawGps(2))))
        /\ HasEntry(results, Str("Longitude"),
                    IF ObjEq(RawGps(3), Str("E")) THEN Magnitude(RawGps(4))
                    ELSE Negated(Magnitude(RawGps(4))))

\* An unexpected latitude reference gives a negative latitude, next to a
\* positive longitude.
C5_Witness ==
    /\ Returned
    /\ AllFourValid
    /\ ObjEq(RawGps(1), Str("X"))
    /\ ObjEq(RawGps(3), Str("E"))
    /\ HasEntry(results, Str("Latitude"), Float(-1213, 30))
    /\ HasEntry(results, Str("Longitude"), Float(2399, 30))

\* C6: for Rationals with non-zero denominators _convert_to_degrees returns
\* dn/dd + (mn/md)/60 + (sn/sd)/3600; with unit denominators 3600 times the
\* result is 3600*d + 60*m + s; 40 26' 0" N is about 40.4333 and
\* 79 58' 0" W about -79.9667.
C6_DegreesFormula ==
    /\ (pc = "converted" /\ ~ZeroDen(value)) =>
          /\ degrees.exc = ""
          /\ ObjEq(degrees.val, Magnitude(value))
          /\ (\A i \in 1..3 : value.v[i][2] = 1) =>
                3600 * degrees.val.v[1] =
                    (3600 * value.v[1][1] + 60 * value.v[2][1] + value.v[3][1])
                    * degrees.val.v[2]
    /\ (Returned /\ AllFourValid
           /\ RawGps(2).v = << <<40, 1>>, <<26, 1>>, <<0, 1>> >>
           /\ ObjEq(RawGps(1), Str("N")) /\ ObjEq(RawGps(3), Str("W"))) =>
          \E la, lo \in 1..Len(results.v) :
              /\ ObjEq(results.v[la][1], Str("Latitude"))
              /\ 404333 * results.v[la][2].v[2] <= 10000 * results.v[la][2].v[1]
              /\ 10000 * results.v[la][2].v[1] < 404334 * results.v[la][2].v[2]
              /\ ObjEq(results.v[lo][1], Str("Longitude"))
              /\ -799667 * results.v[lo][2].v[2] <= 10000 * results.v[lo][2].v[1]
              /\ 10000 * results.v[lo][2].v[1] < -799666 * results.v[lo][2].v[2]

\* A conversion in which degrees, minutes and seconds all count and no
\* denominator is 1.
C6_Witness ==
    /\ pc = "converted"
    /\ value.v = << <<1, 2>>, <<1, 2>>, <<1, 2>> >>
    /\ ObjEq(degrees.val, Float(3661, 7200))

\* C7: when the decoder raises or yields an empty or None map for an
\* existing non-.mov file, no exception leaves extract_exif_data and the
\* record's labels are exactly Fullpath, Filename.
C7_NoExifGivesFileKeysOnly ==
    (pc \in {"extracted", "done", "raised"} /\ decoded = 1 /\ ~Truthy(img_data)) =>
        /\ pc # "raised"
        /\ pc = "done" => Labels(results) = FileLabels

\* The decoder returned None, which _extract_exif_data cannot iterate.
C7_Witness ==
    /\ Returned
    /\ decoded = 1
    /\ img_data.k = "NoneType"
    /\ err = "AttributeError"
    /\ Labels(results) = FileLabels

\* C8: with all four fields present and a zero denominator in one of the
\* six Rationals, no exception leaves extract_exif_data and the record has
\* neither Latitude nor Longitude, also when only the longitude is bad.
C8_ZeroDenominatorNoLatLon ==
    (pc \in {"extracted", "done", "raised"} /\ AllFour
       /\ (ZeroDen(RawGps(2)) \/ ZeroDen(RawGps(4)))) =>
        /\ pc # "raised"
        /\ pc = "done" =>
              /\ results.k = "Series"
              /\ ~HasLabel(results, "Latitude")
              /\ ~HasLabel(results, "Longitude")

\* The latitude converts and the seconds of the longitude have a zero
\* denominator.
C8_Witness ==
    /\ Returned
    /\ AllFour
    /\ ~ZeroDen(RawGps(2))
    /\ RawGps(4).v[3][2] = 0
    /\ err = "ZeroDivisionError"
    /\ HasLabel(results, "GPSLongitude")
    /\ ~HasLabel(results, "Latitude")

\* C9: the record's labels are pairwise distinct and ordered: the named
\* general fields in the order of the decoder's map, Fullpath, Filename,
\* then, only for a non-empty GPS sub-record, its fields in the order of
\* the GPSInfo map (an unnamed sub-tag under the label None) and last,
\* when computed, Latitude then Longitude.
C9_LabelOrder ==
    Returned =>
        /\ Labels(results) = ExpectedLabels
        /\ \A i, j \in 1..Len(results.v) :
              ObjEq(results.v[i][1], results.v[j][1]) => i = j

\* A named tag after GPSInfo, two unnamed GPS sub-tags under one label, and
\* a converted coordinate.
C9_Witness ==
    /\ Returned
    /\ AllFourValid
    /\ Len(RawItems) = 2
    /\ GeneralLabels = <<Str("GPSInfo"), Str("Model")>>
    /\ Len(RawGpsInfo.v) = 6
    /\ Len(results.v) = 11
    /\ results.v[Len(results.v)][1] = Str("Longitude")

\* C10 as stated: after an exception in tag decoding, GPS decoding or
\* coordinate conversion the record holds Fullpath and Filename and
\* nothing that was decoded before the failure.
C10_PartialContentDiscarded ==
    (Returned /\ err # "") => Labels(results) = FileLabels

\* C10 amended: after such an exception the content decoded before the
\* failure is kept: every named general field and every named GPS
\* sub-field decoded so far is in the record with its value, next to
\* Fullpath and Filename; only Latitude and Longitude are missing.
C10_PartialContentKept ==
    (Returned /\ err # "") =>
        /\ \A i \in 1..Len(RawItems) :
              IsNamed(TagsGet(RawItems[i][1])) =>
                  HasEntry(results, TagsGet(RawItems[i][1]), RawItems[i][2])
        /\ GpsBlock =>
              \A i \in 1..Len(RawGpsInfo.v) :
                  IsNamed(GpsTagsGet(RawGpsInfo.v[i][1])) =>
                      HasEntry(results, GpsTagsGet(RawGpsInfo.v[i][1]),
                               RawGpsInfo.v[i][2])
        /\ HasLabel(results, "Fullpath")
        /\ HasLabel(results, "Filename")
        /\ ~HasLabel(results, "Latitude")
        /\ ~HasLabel(results, "Longitude")

\* The coordinate conversion failed after a general field and GPS
\* sub-fields had been decoded; they are all returned.
C10_Witness ==
    /\ Returned
    /\ err = "ZeroDivisionError"
    /\ HasEntry(results, Str("Make"), Str("Canon"))
    /\ HasEntry(results, Str("GPSLatitudeRef"), Str("S"))
    /\ HasLabel(results, "GPSInfo")

====
